---- MODULE Spec2Model ----
(***************************************************************************)
(* Model of lwr_client/staging/down.py: finish_job, ResultsCollector,      *)
(* ClientOutputCollector, DownloadExceptionTracker and __clean.            *)
(*                                                                         *)
(* File names and paths are sequences of one-character strings, so that    *)
(* the regular expression of COPY_FROM_WORKING_DIRECTORY_PATTERN and the   *)
(* path arithmetic (join, relpath, the path helper) are computed on the    *)
(* characters.  Python's None is the empty sequence where a path or a name *)
(* is optional, and a record with isNone = TRUE where a list is optional.  *)
(***************************************************************************)
EXTENDS Naturals, Sequences, FiniteSets

VARIABLES
    pc,                                  \* position in finish_job
    cleanup_job,                         \* finish_job parameter
    job_completed_normally,              \* finish_job parameter
    output_files,                        \* galaxy_outputs.output_files (aliased by self.output_files)
    work_dir_outputs,                    \* galaxy_outputs.work_dir_outputs
    version_file,                        \* galaxy_outputs.version_file
    lwr_working_directory_contents,      \* lwr_outputs.working_directory_contents
    output_directory_contents,           \* lwr_outputs.output_directory_contents
    working_directory_contents,          \* self.working_directory_contents
    downloaded_working_directory_files,  \* self.downloaded_working_directory_files
    download_failure_exceptions,         \* exception_tracker.download_failure_exceptions
    i,                                   \* index of the running for loop
    extras,                              \* items of output_extras(output_file) being iterated
    j,                                   \* index into extras
    attempts,                            \* every _attempt_collect_output call made, in order
    has_output_file_replies,             \* every has_output_file and output_extras reply, in order
    clean_calls,                         \* outcome of every client.clean() call, in order
    failed,                              \* value returned by finish_job
    initial_output_files,                \* output_files as passed to finish_job
    candidate,                           \* name handed to the pattern
    candidate_matched                    \* whether the pattern matched it

vars == <<pc, cleanup_job, job_completed_normally, output_files, work_dir_outputs,
          version_file, lwr_working_directory_contents, output_directory_contents,
          working_directory_contents, downloaded_working_directory_files,
          download_failure_exceptions, i, extras, j, attempts,
          has_output_file_replies, clean_calls, failed, initial_output_files,
          candidate, candidate_matched>>

(***************************************************************************)
(* Bounds of the model.                                                    *)
(***************************************************************************)
MaxWorkDirOutputs == 2
MaxOutputFiles == 2
MaxWdContents == 2
MaxTokens == 4

(***************************************************************************)
(* Sequences.                                                              *)
(***************************************************************************)
SeqsUpTo(S, n) == UNION {[1..k -> S] : k \in 0..n}

NoDuplicates(s) == \A a, b \in 1..Len(s) : s[a] = s[b] => a = b

StartsWith(s, prefix) ==
    /\ Len(prefix) <= Len(s)
    /\ \A k \in 1..Len(prefix) : s[k] = prefix[k]

Drop(s, n) == [k \in 1..(Len(s) - n) |-> s[k + n]]

(***************************************************************************)
(* os.path.join and os.path.relpath (POSIX), on the paths the job uses:    *)
(* relpath is computed for a path that lies inside start, which is how the *)
(* sources of work_dir_outputs are built.                                  *)
(***************************************************************************)
join(a, b) ==
    IF StartsWith(b, <<"/">>) THEN b
    ELSE IF a = <<>> \/ a[Len(a)] = "/" THEN a \o b
    ELSE a \o <<"/">> \o b

relpath(path, start) ==
    IF StartsWith(path, start \o <<"/">>) THEN Drop(path, Len(start) + 1) ELSE path

(***************************************************************************)
(* lwr_outputs.path_helper: the remote server names files with its own     *)
(* separator.                                                              *)
(***************************************************************************)
RemoteSeparator == "\\"

remote_name(name) == [k \in 1..Len(name) |-> IF name[k] = "/" THEN RemoteSeparator ELSE name[k]]

local_name(name) == [k \in 1..Len(name) |-> IF name[k] = RemoteSeparator THEN "/" ELSE name[k]]

COMMAND_VERSION_FILENAME == <<"C", "O", "M", "M", "A", "N", "D", "_", "V", "E", "R", "S", "I", "O", "N">>

(***************************************************************************)
(* COPY_FROM_WORKING_DIRECTORY_PATTERN.match(name): re.match anchors the   *)
(* pattern at the start of the name only; "." is any character but a       *)
(* newline; \d is a decimal digit; each alternative is tried in turn.      *)
(***************************************************************************)
Digits == {"0", "1", "2", "3", "4", "5", "6", "7", "8", "9"}

AnyChar(c) == c # "\n"

LeadingDigits(s) ==
    CHOOSE n \in 0..Len(s) :
        /\ \A k \in 1..n : s[k] \in Digits
        /\ n = Len(s) \/ s[n + 1] \notin Digits

Lit_primary == <<"p", "r", "i", "m", "a", "r", "y", "_">>
Lit_galaxy == <<"g", "a", "l", "a", "x", "y">>
Lit_json == <<"j", "s", "o", "n">>
Lit_metadata == <<"m", "e", "t", "a", "d", "a", "t", "a", "_">>
Lit_dataset == <<"d", "a", "t", "a", "s", "e", "t", "_">>
Lit_dat == <<"d", "a", "t">>
Lit_files == <<"_", "f", "i", "l", "e", "s">>

MatchPrimary(s) == StartsWith(s, Lit_primary)

MatchGalaxyJson(s) ==
    /\ StartsWith(s, Lit_galaxy)
    /\ Len(s) > Len(Lit_galaxy)
    /\ AnyChar(s[Len(Lit_galaxy) + 1])
    /\ StartsWith(Drop(s, Len(Lit_galaxy) + 1), Lit_json)

MatchMetadata(s) == StartsWith(s, Lit_metadata)

AfterDatasetDigits(s) == Drop(s, Len(Lit_dataset) + LeadingDigits(Drop(s, Len(Lit_dataset))))

MatchDatasetDat(s) ==
    /\ StartsWith(s, Lit_dataset)
    /\ LeadingDigits(Drop(s, Len(Lit_dataset))) >= 1
    /\ StartsWith(AfterDatasetDigits(s), <<".">> \o Lit_dat)

MatchDatasetFiles(s) ==
    /\ StartsWith(s, Lit_dataset)
    /\ LeadingDigits(Drop(s, Len(Lit_dataset))) >= 1
    /\ StartsWith(AfterDatasetDigits(s), Lit_files)
    /\ Len(AfterDatasetDigits(s)) > Len(Lit_files)
    /\ AnyChar(AfterDatasetDigits(s)[Len(Lit_files) + 1])

PatternMatch(name) ==
    \/ MatchPrimary(name)
    \/ MatchGalaxyJson(name)
    \/ MatchMetadata(name)
    \/ MatchDatasetDat(name)
    \/ MatchDatasetFiles(name)

(***************************************************************************)
(* The job's inputs.                                                       *)
(***************************************************************************)
WorkingDirectory == <<"/", "w">>

PathA == <<"/", "o", "/", "A">>
PathB == <<"/", "o", "/", "B">>
OutputPaths == {PathA, PathB}

VersionPath == <<"/", "o", "/", "V">>

LocalNames == {<<"p", "r", "i", "m", "a", "r", "y", "_", "d", "/", "x">>, <<"r", "e", "p", "o", "r", "t", ".", "h", "t", "m", "l">>}

RemoteNames == {remote_name(n) : n \in LocalNames}

WorkDirOutputPairs == {<<join(WorkingDirectory, n), p>> : n \in LocalNames, p \in OutputPaths}

WorkDirOutputLists ==
    {s \in SeqsUpTo(WorkDirOutputPairs, MaxWorkDirOutputs) :
        \A a, b \in 1..Len(s) : (s[a][1] = s[b][1] \/ s[a][2] = s[b][2]) => a = b}

OutputFileLists == {s \in SeqsUpTo(OutputPaths, MaxOutputFiles) : NoDuplicates(s)}

NoneList == [isNone |-> TRUE, list |-> <<>>]

SomeList(s) == [isNone |-> FALSE, list |-> s]

OrEmpty(l) == IF l.isNone THEN <<>> ELSE l.list

WdContentLists == {NoneList} \cup {SomeList(s) : s \in SeqsUpTo(RemoteNames, MaxWdContents)}

OutputDirectoryLists == {NoneList, SomeList(<<>>), SomeList(<<COMMAND_VERSION_FILENAME>>)}

CleanupPolicies == {"never", "always", "onsuccess"}

(* has_output_file replies None, True or False. *)
HasOutputFileReplies == {"None", "True", "False"}

(* output_extras(output_file): a dict of galaxy_path -> lwr_name, as its items. *)
(* The remote may report an extra file for the first output path only.        *)
ExtrasOf(output_file) ==
    IF output_file = PathA
    THEN {<<>>, << <<output_file \o <<".", "x">>, <<"e">>>> >>}
    ELSE {<<>>}

(***************************************************************************)
(* list.remove(x): removes the first occurrence; raises ValueError when x  *)
(* is not in the list (ListHas is false).                                  *)
(***************************************************************************)
ListHas(s, x) == \E k \in 1..Len(s) : s[k] = x

(* A removal that leaves the list as it is. *)
ListRemove_Keeps(s, x) == s

ListRemove(s, x) ==
    LET first == CHOOSE k \in 1..Len(s) : s[k] = x /\ \A m \in 1..(k - 1) : s[m] # x
    IN  [k \in 1..(Len(s) - 1) |-> IF k < first THEN s[k] ELSE s[k + 1]]

(***************************************************************************)
(* One call of _attempt_collect_output.  The action mapper and the client  *)
(* are external: the call either collects, or action_mapper.action raises, *)
(* or the client's transfer call raises.                                   *)
(***************************************************************************)
Outcomes == {"collected", "action_raised", "transfer_raised"}

NoException == [raised_by |-> "nothing", attempt |-> 0]

(* An action category that is the output type itself. *)
output_action_type_AsGiven(output_type) == output_type

output_action_type(output_type) ==
    IF output_type = "output_workdir" THEN "output_workdir" ELSE "output"

(* A dispatcher that fetches a legacy output as an output. *)
collect_output_LegacyAsOutput(output_type) ==
    IF output_type = "output_workdir" THEN "fetch_work_dir_output"
    ELSE IF output_type \in {"legacy", "output"} THEN "fetch_output"
    ELSE "none"

(* ClientOutputCollector.collect_output: the client call made for an output type. *)
collect_output(output_type) ==
    IF output_type = "legacy" THEN "fetch_output_legacy"
    ELSE IF output_type = "output_workdir" THEN "fetch_work_dir_output"
    ELSE IF output_type = "output" THEN "fetch_output"
    ELSE "none"

(* The exception, if any, raised inside the with block of the n-th attempt. *)
RaisedInAttempt(output_type, n, outcome) ==
    IF outcome = "action_raised" THEN [raised_by |-> "action", attempt |-> n]
    ELSE IF outcome = "transfer_raised" THEN [raised_by |-> collect_output(output_type), attempt |-> n]
    ELSE NoException

(* A tracker that swallows the exception without recording it. *)
ExceptionTrackerCall_Drops(exceptions, e) ==
    [exceptions |-> exceptions, propagated |-> NoException]

(* A tracker that records the exception and raises it again. *)
ExceptionTrackerCall_Reraises(exceptions, e) ==
    [exceptions |-> IF e = NoException THEN exceptions ELSE Append(exceptions, e),
     propagated |-> e]

(* DownloadExceptionTracker.__call__: an exception raised in the block is *)
(* appended to the list and swallowed.                                     *)
ExceptionTrackerCall(exceptions, e) ==
    [exceptions |-> IF e = NoException THEN exceptions ELSE Append(exceptions, e),
     propagated |-> NoException]

AttemptRecord(output_type, path, name, outcome) ==
    [output_type |-> output_type,
     path |-> path,
     name |-> name,
     action_category |-> output_action_type(output_type),
     transfer |-> IF outcome = "action_raised" THEN "none" ELSE collect_output(output_type),
     outcome |-> outcome]

AttemptCollectOutput(output_type, path, name, outcome) ==
    LET n == Len(attempts) + 1
        tracked == ExceptionTrackerCall(download_failure_exceptions,
                                        RaisedInAttempt(output_type, n, outcome))
    IN  [attempts |-> Append(attempts, AttemptRecord(output_type, path, name, outcome)),
         exceptions |-> tracked.exceptions,
         escaped |-> tracked.propagated # NoException,
         collected |-> outcome = "collected"]

(* A collector that records every name it attempted. *)
RecordDownloaded_Always(downloaded, collected, lwr_name) == Append(downloaded, lwr_name)

(* A collector that forgets what it downloaded. *)
RecordDownloaded_Never(downloaded, collected, lwr_name) == downloaded

(* __collect_working_directory_outputs: a collected file is recorded. *)
RecordDownloaded(downloaded, collected, lwr_name) ==
    IF collected THEN Append(downloaded, lwr_name) ELSE downloaded

(***************************************************************************)
(* __collect_outputs: what the reply of has_output_file leads to.          *)
(***************************************************************************)
(* A test of "is not None" in place of the truth of the reply. *)
OutputTypeFor_NotNone(output_generated) ==
    IF output_generated = "None" THEN "legacy" ELSE "output"

(* A collector without the legacy branch. *)
OutputTypeFor_NoLegacy(output_generated) ==
    IF output_generated = "False" THEN "skip" ELSE "output"

OutputTypeFor(output_generated) ==
    IF output_generated = "None" THEN "legacy"
    ELSE IF output_generated = "True" THEN "output"
    ELSE "skip"

(* An inner loop that runs only where a download was attempted. *)
ExtrasToCollect_OnlyIfGenerated(output_generated, items) ==
    IF output_generated = "False" THEN <<>> ELSE items

(* __collect_outputs: the extras are iterated whatever has_output_file replied. *)
ExtrasToCollect(output_generated, items) == items

(* A test of the declared version file alone. *)
VersionFileReported_IgnoresListing(declared, contents) == declared # <<>>

(* __collect_version_file: a version file is declared and the remote lists it. *)
VersionFileReported(declared, contents) ==
    declared # <<>> /\ ListHas(OrEmpty(contents), COMMAND_VERSION_FILENAME)

(***************************************************************************)
(* __clean: the value returned and the decision to call client.clean().    *)
(***************************************************************************)
(* A comparison that is off by one. *)
Failed_MoreThanOne(exceptions) == Len(exceptions) > 1

Failed(exceptions) == Len(exceptions) > 0

(* A decision that lets a failure veto the "always" policy. *)
ShouldClean_IgnoresAlways(exceptions, policy) ==
    ~Failed(exceptions) /\ policy # "never"

ShouldClean(exceptions, policy) ==
    (~Failed(exceptions) /\ policy # "never") \/ policy = "always"

CleanOutcomes == {"cleaned", "clean_raised"}

(* A __clean without its try/except. *)
CleanEscapes_Uncaught(outcome) == outcome = "clean_raised"

(* The bare except of __clean: whatever client.clean() raises is logged. *)
CleanEscapes(outcome) == FALSE

(***************************************************************************)
(* Initial state: finish_job is called with a job's inputs.                *)
(***************************************************************************)
Init ==
    /\ pc = "finish_job"
    /\ cleanup_job \in CleanupPolicies
    /\ job_completed_normally \in BOOLEAN
    /\ output_files \in OutputFileLists
    /\ initial_output_files = output_files
    /\ work_dir_outputs \in WorkDirOutputLists
    /\ version_file \in {<<>>, VersionPath}
    /\ lwr_working_directory_contents \in WdContentLists
    /\ output_directory_contents \in OutputDirectoryLists
    /\ working_directory_contents = <<>>
    /\ downloaded_working_directory_files = <<>>
    /\ download_failure_exceptions = <<>>
    /\ i = 1
    /\ extras = <<>>
    /\ j = 1
    /\ attempts = <<>>
    /\ has_output_file_replies = <<>>
    /\ clean_calls = <<>>
    /\ failed = FALSE
    /\ candidate = <<>>
    /\ candidate_matched = FALSE

inputs == <<cleanup_job, job_completed_normally, work_dir_outputs, version_file,
            lwr_working_directory_contents, output_directory_contents,
            initial_output_files, candidate, candidate_matched>>

(* A finish_job that collects whatever the job did. *)
CollectsResults_Always(completed_normally) == TRUE

(* A collect() that fetches the version file before the declared outputs. *)
PhaseAfter_VersionFileFirst(phase) ==
    IF phase = "work_dir_outputs" THEN "version_file"
    ELSE IF phase = "version_file" THEN "outputs"
    ELSE IF phase = "outputs" THEN "other_files"
    ELSE "clean"

(* collect(): the phase that follows a phase; after the last one collect() *)
(* returns to finish_job, which calls __clean.                            *)
PhaseAfter(phase) ==
    IF phase = "work_dir_outputs" THEN "outputs"
    ELSE IF phase = "outputs" THEN "version_file"
    ELSE IF phase = "version_file" THEN "other_files"
    ELSE "clean"

(* finish_job collects the results of a job that completed normally. *)
CollectsResults(completed_normally) == completed_normally

(* finish_job up to the call of collect(), or straight to __clean. *)
FinishJob ==
    /\ pc = "finish_job"
    /\ IF CollectsResults(job_completed_normally)
       THEN /\ working_directory_contents' = OrEmpty(lwr_working_directory_contents)
            /\ pc' = "work_dir_outputs"
       ELSE /\ working_directory_contents' = working_directory_contents
            /\ pc' = "clean"
    /\ downloaded_working_directory_files' = <<>>
    /\ download_failure_exceptions' = <<>>
    /\ i' = 1
    /\ UNCHANGED <<inputs, output_files, extras, j, attempts, has_output_file_replies,
                   clean_calls, failed>>

(* One iteration of the loop of __collect_working_directory_outputs, or its end. *)
CollectWorkingDirectoryOutputs ==
    /\ pc = "work_dir_outputs"
    /\ IF i > Len(work_dir_outputs)
       THEN /\ pc' = PhaseAfter("work_dir_outputs")
            /\ i' = 1
            /\ UNCHANGED <<attempts, download_failure_exceptions,
                           downloaded_working_directory_files, output_files>>
       ELSE \E outcome \in Outcomes :
            LET source_file == work_dir_outputs[i][1]
                output_file == work_dir_outputs[i][2]
                name == relpath(source_file, WorkingDirectory)
                lwr_name == remote_name(name)
                r == AttemptCollectOutput("output_workdir", output_file, lwr_name, outcome)
            IN  /\ attempts' = r.attempts
                /\ download_failure_exceptions' = r.exceptions
                /\ IF r.escaped
                   THEN /\ pc' = "raised"
                        /\ UNCHANGED <<downloaded_working_directory_files, output_files, i>>
                   ELSE /\ downloaded_working_directory_files' =
                              RecordDownloaded(downloaded_working_directory_files,
                                               r.collected, lwr_name)
                        /\ IF ListHas(output_files, output_file)
                           THEN /\ output_files' = ListRemove(output_files, output_file)
                                /\ i' = i + 1
                                /\ pc' = pc
                           ELSE /\ pc' = "raised"
                                /\ UNCHANGED <<output_files, i>>
    /\ UNCHANGED <<inputs, working_directory_contents, extras, j,
                   has_output_file_replies, clean_calls, failed>>

(* One iteration of the loop of __collect_outputs up to its inner loop, or its end. *)
CollectOutputs ==
    /\ pc = "outputs"
    /\ IF i > Len(output_files)
       THEN /\ pc' = PhaseAfter("outputs")
            /\ i' = 1
            /\ UNCHANGED <<attempts, download_failure_exceptions, has_output_file_replies,
                           extras, j>>
       ELSE \E output_generated \in HasOutputFileReplies, outcome \in Outcomes :
            \E items \in ExtrasOf(output_files[i]) :
            LET output_file == output_files[i]
                output_type == OutputTypeFor(output_generated)
                r == AttemptCollectOutput(output_type, output_file, <<>>, outcome)
            IN  /\ output_type = "skip" => outcome = "collected"
                /\ has_output_file_replies' =
                       Append(has_output_file_replies,
                              [output_file |-> output_file,
                               output_generated |-> output_generated,
                               items |-> items])
                /\ IF output_type = "skip"
                   THEN /\ UNCHANGED <<attempts, download_failure_exceptions>>
                        /\ pc' = "extras"
                   ELSE /\ attempts' = r.attempts
                        /\ download_failure_exceptions' = r.exceptions
                        /\ pc' = IF r.escaped THEN "raised" ELSE "extras"
                /\ extras' = ExtrasToCollect(output_generated, items)
                /\ j' = 1
                /\ i' = i
    /\ UNCHANGED <<inputs, output_files, working_directory_contents,
                   downloaded_working_directory_files, clean_calls, failed>>

(* One iteration of the loop over output_extras(output_file), or its end. *)
CollectOutputExtras ==
    /\ pc = "extras"
    /\ IF j > Len(extras)
       THEN /\ pc' = "outputs"
            /\ i' = i + 1
            /\ UNCHANGED <<attempts, download_failure_exceptions, j>>
       ELSE \E outcome \in Outcomes :
            LET galaxy_path == extras[j][1]
                lwr_name == extras[j][2]
                r == AttemptCollectOutput("output", galaxy_path, lwr_name, outcome)
            IN  /\ attempts' = r.attempts
                /\ download_failure_exceptions' = r.exceptions
                /\ pc' = IF r.escaped THEN "raised" ELSE pc
                /\ j' = j + 1
                /\ i' = i
    /\ UNCHANGED <<inputs, output_files, working_directory_contents, extras,
                   downloaded_working_directory_files, has_output_file_replies,
                   clean_calls, failed>>

(* __collect_version_file. *)
CollectVersionFile ==
    /\ pc = "version_file"
    /\ IF VersionFileReported(version_file, output_directory_contents)
       THEN \E outcome \in Outcomes :
            LET r == AttemptCollectOutput("output", version_file, COMMAND_VERSION_FILENAME, outcome)
            IN  /\ attempts' = r.attempts
                /\ download_failure_exceptions' = r.exceptions
                /\ pc' = IF r.escaped THEN "raised" ELSE PhaseAfter("version_file")
       ELSE /\ pc' = PhaseAfter("version_file")
            /\ UNCHANGED <<attempts, download_failure_exceptions>>
    /\ i' = 1
    /\ UNCHANGED <<inputs, output_files, working_directory_contents, extras, j,
                   downloaded_working_directory_files, has_output_file_replies,
                   clean_calls, failed>>

(* One iteration of the loop of __collect_other_working_directory_files, or *)
(* its end, where collect() returns the exceptions to finish_job.           *)
CollectOtherWorkingDirectoryFiles ==
    /\ pc = "other_files"
    /\ IF i > Len(working_directory_contents)
       THEN /\ pc' = PhaseAfter("other_files")
            /\ UNCHANGED <<attempts, download_failure_exceptions,
                           downloaded_working_directory_files, i>>
       ELSE LET name == working_directory_contents[i]
            IN  IF ListHas(downloaded_working_directory_files, name) \/ ~PatternMatch(name)
                THEN /\ i' = i + 1
                     /\ pc' = pc
                     /\ UNCHANGED <<attempts, download_failure_exceptions,
                                    downloaded_working_directory_files>>
                ELSE \E outcome \in Outcomes :
                     LET output_file == join(WorkingDirectory, local_name(name))
                         r == AttemptCollectOutput("output_workdir", output_file, name, outcome)
                     IN  /\ attempts' = r.attempts
                         /\ download_failure_exceptions' = r.exceptions
                         /\ downloaded_working_directory_files' =
                                IF r.collected /\ ~r.escaped
                                THEN Append(downloaded_working_directory_files, name)
                                ELSE downloaded_working_directory_files
                         /\ pc' = IF r.escaped THEN "raised" ELSE pc
                         /\ i' = i + 1
    /\ UNCHANGED <<inputs, output_files, working_directory_contents, extras, j,
                   has_output_file_replies, clean_calls, failed>>

(* __clean, and the return of finish_job. *)
Clean ==
    /\ pc = "clean"
    /\ IF ShouldClean(download_failure_exceptions, cleanup_job)
       THEN \E outcome \in CleanOutcomes :
            /\ clean_calls' = Append(clean_calls, outcome)
            /\ IF outcome = "clean_raised" /\ CleanEscapes(outcome)
               THEN pc' = "raised" /\ failed' = failed
               ELSE pc' = "returned" /\ failed' = Failed(download_failure_exceptions)
       ELSE /\ clean_calls' = clean_calls
            /\ pc' = "returned"
            /\ failed' = Failed(download_failure_exceptions)
    /\ UNCHANGED <<inputs, output_files, working_directory_contents, extras, i, j,
                   downloaded_working_directory_files, download_failure_exceptions,
                   attempts, has_output_file_replies>>

Next ==
    \/ FinishJob
    \/ CollectWorkingDirectoryOutputs
    \/ CollectOutputs
    \/ CollectOutputExtras
    \/ CollectVersionFile
    \/ CollectOtherWorkingDirectoryFiles
    \/ Clean

Spec == Init /\ [][Next]_vars

(***************************************************************************)
(* The pattern on its own: a name is drawn and matched as                  *)
(* __collect_other_working_directory_files matches it.                     *)
(***************************************************************************)
Tokens ==
    {<<"p", "r", "i", "m", "a", "r", "y", "_">>,
     <<"g", "a", "l", "a", "x", "y">>,
     <<".">>,
     <<"j", "s", "o", "n">>,
     <<"m", "e", "t", "a", "d", "a", "t", "a", "_">>,
     <<"d", "a", "t", "a", "s", "e", "t", "_">>,
     <<"4", "2">>,
     <<"7">>,
     <<"d", "a", "t">>,
     <<"_", "f", "i", "l", "e", "s">>,
     <<"x">>,
     <<"\n">>}

ExampleNames ==
    {<<"p", "r", "i", "m", "a", "r", "y", "_", "1", ".", "t", "x", "t">>,
     <<"g", "a", "l", "a", "x", "y", ".", "j", "s", "o", "n">>,
     <<"m", "e", "t", "a", "d", "a", "t", "a", "_", "I", "N", "F", "O">>,
     <<"d", "a", "t", "a", "s", "e", "t", "_", "4", "2", ".", "d", "a", "t">>,
     <<"d", "a", "t", "a", "s", "e", "t", "_", "7", "_", "f", "i", "l", "e", "s", ".", "t", "a", "r">>,
     <<"r", "e", "p", "o", "r", "t", ".", "h", "t", "m", "l">>}

RECURSIVE Concat(_)
Concat(ts) == IF ts = <<>> THEN <<>> ELSE Head(ts) \o Concat(Tail(ts))

CandidateNames == ExampleNames \cup {Concat(ts) : ts \in SeqsUpTo(Tokens, MaxTokens)}

InitPattern ==
    /\ pc = "pattern"
    /\ candidate \in CandidateNames
    /\ candidate_matched = FALSE
    /\ cleanup_job = "never"
    /\ job_completed_normally = TRUE
    /\ output_files = <<>>
    /\ initial_output_files = <<>>
    /\ work_dir_outputs = <<>>
    /\ version_file = <<>>
    /\ lwr_working_directory_contents = SomeList(<<candidate>>)
    /\ output_directory_contents = NoneList
    /\ working_directory_contents = <<candidate>>
    /\ downloaded_working_directory_files = <<>>
    /\ download_failure_exceptions = <<>>
    /\ i = 1
    /\ extras = <<>>
    /\ j = 1
    /\ attempts = <<>>
    /\ has_output_file_replies = <<>>
    /\ clean_calls = <<>>
    /\ failed = FALSE

MatchCandidate ==
    /\ pc = "pattern"
    /\ candidate_matched' = PatternMatch(working_directory_contents[i])
    /\ pc' = "pattern_done"
    /\ UNCHANGED <<cleanup_job, job_completed_normally, output_files, work_dir_outputs,
                   version_file, lwr_working_directory_contents, output_directory_contents,
                   working_directory_contents, downloaded_working_directory_files,
                   download_failure_exceptions, i, extras, j, attempts,
                   has_output_file_replies, clean_calls, failed, initial_output_files,
                   candidate>>

NextPattern == MatchCandidate

SpecPattern == InitPattern /\ [][NextPattern]_vars

(***************************************************************************)
(* Vocabulary of the properties.                                           *)
(***************************************************************************)
Attempts == 1..Len(attempts)

FailedAttempts == {a \in Attempts : attempts[a].outcome # "collected"}

(* collect() has returned its list to finish_job. *)
CollectReturned == job_completed_normally /\ pc \in {"clean", "returned"}

(* The remote name of the k-th explicit working-directory output. *)
LwrNameOf(k) == remote_name(relpath(work_dir_outputs[k][1], WorkingDirectory))

(* list.remove raised ValueError in __collect_working_directory_outputs. *)
RemoveRaised ==
    /\ pc = "raised"
    /\ i \in 1..Len(work_dir_outputs)
    /\ ~ListHas(output_files, work_dir_outputs[i][2])
    /\ Len(attempts) = i

(***************************************************************************)
(* C1: when finish_job is run for a job that completed normally and        *)
(* returns, it returns true exactly when some collection attempt (action   *)
(* resolution or transfer) raised; it returns false when all attempts      *)
(* succeeded or none was made.                                             *)
(***************************************************************************)
C1_ReturnsTrueIffSomeAttemptFailed ==
    (pc = "returned" /\ job_completed_normally) => (failed <=> FailedAttempts # {})

C1_Witness ==
    /\ pc = "returned"
    /\ job_completed_normally
    /\ failed
    /\ \E a \in Attempts : attempts[a].outcome = "action_raised"
    /\ \E a \in Attempts : attempts[a].outcome = "collected"

(***************************************************************************)
(* C2: a failed attempt does not keep later candidates from being          *)
(* attempted.  No failed attempt ends the run (the run is cut short only   *)
(* where list.remove raises), and when collect() returns every candidate   *)
(* of the four phases has been attempted, whatever the outcomes of the     *)
(* earlier attempts: each explicit working-directory output, each          *)
(* remaining expected output reported None or True, each extra, the        *)
(* version file, and each listed name that matches the pattern.            *)
(***************************************************************************)
WorkDirOutputAttempted(k) ==
    \E a \in Attempts :
        /\ attempts[a].output_type = "output_workdir"
        /\ attempts[a].path = work_dir_outputs[k][2]
        /\ attempts[a].name = LwrNameOf(k)

ExpectedOutputAttempted(q) ==
    \E r \in 1..Len(has_output_file_replies) :
        LET reply == has_output_file_replies[r]
        IN  /\ reply.output_file = output_files[q]
            /\ reply.output_generated = "None" =>
                   \E a \in Attempts : /\ attempts[a].output_type = "legacy"
                                       /\ attempts[a].path = output_files[q]
            /\ reply.output_generated = "True" =>
                   \E a \in Attempts : /\ attempts[a].output_type = "output"
                                       /\ attempts[a].path = output_files[q]
            /\ \A e \in 1..Len(reply.items) :
                   \E a \in Attempts : /\ attempts[a].output_type = "output"
                                       /\ attempts[a].path = reply.items[e][1]
                                       /\ attempts[a].name = reply.items[e][2]

VersionFileIsCandidate ==
    /\ version_file # <<>>
    /\ ~output_directory_contents.isNone
    /\ \E k \in 1..Len(output_directory_contents.list) :
           output_directory_contents.list[k] = COMMAND_VERSION_FILENAME

VersionFileAttempted ==
    \E a \in Attempts : /\ attempts[a].output_type = "output"
                        /\ attempts[a].path = version_file
                        /\ attempts[a].name = COMMAND_VERSION_FILENAME

ListedNameAttempted(k) ==
    \E a \in Attempts : /\ attempts[a].output_type = "output_workdir"
                        /\ attempts[a].name = lwr_working_directory_contents.list[k]

AllCandidatesAttempted ==
    /\ \A k \in 1..Len(work_dir_outputs) : WorkDirOutputAttempted(k)
    /\ \A q \in 1..Len(output_files) : ExpectedOutputAttempted(q)
    /\ VersionFileIsCandidate => VersionFileAttempted
    /\ \A k \in 1..Len(lwr_working_directory_contents.list) :
           PatternMatch(lwr_working_directory_contents.list[k]) => ListedNameAttempted(k)

C2_FailedAttemptDoesNotStopCollection ==
    /\ pc = "raised" => RemoveRaised
    /\ CollectReturned => AllCandidatesAttempted

C2_Witness ==
    /\ CollectReturned
    /\ Len(work_dir_outputs) = 2
    /\ Len(attempts) >= 4
    /\ attempts[1].outcome = "transfer_raised"
    /\ attempts[2].outcome = "action_raised"
    /\ attempts[2].path = work_dir_outputs[2][2]
    /\ \E a \in Attempts : a > 2 /\ attempts[a].outcome = "collected"

(***************************************************************************)
(* C3: collect() never raises, whether or not the destination of each      *)
(* explicit working-directory output is in the expected-output list and    *)
(* whatever the action and transfer calls do: nothing escapes finish_job.  *)
(***************************************************************************)
C3_NothingEscapesFinishJob == pc # "raised"

(***************************************************************************)
(* C4: an explicit working-directory output is attempted at most once over *)
(* a whole collect() run, whether its phase-1 attempt succeeded or failed: *)
(* no other attempt targets its destination or its remote name.            *)
(***************************************************************************)
AttemptsOnDestination(k) ==
    {a \in Attempts : attempts[a].path = work_dir_outputs[k][2]}

AttemptsOnRemoteName(k) ==
    {a \in Attempts : /\ attempts[a].output_type = "output_workdir"
                      /\ attempts[a].name = LwrNameOf(k)}

AttemptsOnWorkDirOutput(k) == AttemptsOnDestination(k) \cup AttemptsOnRemoteName(k)

C4_ExplicitOutputAttemptedAtMostOnce ==
    \A k \in 1..Len(work_dir_outputs) : Cardinality(AttemptsOnWorkDirOutput(k)) <= 1

(***************************************************************************)
(* C4 as amended: the destination of an explicit working-directory output  *)
(* is attempted at most once, by its phase-1 output_workdir attempt and    *)
(* never by a legacy or output attempt of phase 2, whether that attempt    *)
(* succeeded or failed; and if the phase-1 attempt succeeded, it is the    *)
(* only attempt on the output's remote name in the whole run (phase 4      *)
(* skips the name).                                                        *)
(***************************************************************************)
C4_CollectedExplicitOutputAttemptedOnce ==
    \A k \in 1..Len(work_dir_outputs) :
        /\ Cardinality(AttemptsOnDestination(k)) <= 1
        /\ \A a \in AttemptsOnDestination(k) :
               /\ attempts[a].output_type = "output_workdir"
               /\ attempts[a].name = LwrNameOf(k)
        /\ (\E a \in AttemptsOnDestination(k) : attempts[a].outcome = "collected")
               => Cardinality(AttemptsOnWorkDirOutput(k)) = 1

C4_Witness ==
    /\ CollectReturned
    /\ \E k \in 1..Len(work_dir_outputs) :
           /\ ListHas(initial_output_files, work_dir_outputs[k][2])
           /\ ListHas(working_directory_contents, LwrNameOf(k))
           /\ PatternMatch(LwrNameOf(k))
           /\ \E a \in AttemptsOnDestination(k) : attempts[a].outcome = "collected"
           /\ Cardinality(AttemptsOnWorkDirOutput(k)) = 1
    /\ Len(output_files) > 0

(***************************************************************************)
(* C5: the cleanup decision.  client.clean() is called (once, by __clean)  *)
(* if and only if the policy is "always", or the policy is not "never" and *)
(* the failure list is empty; it is not called before __clean.             *)
(***************************************************************************)
C5_CleanCalledIffPolicyAllows ==
    /\ pc # "returned" => clean_calls = <<>>
    /\ pc = "returned" =>
           /\ Len(clean_calls) <= 1
           /\ Len(clean_calls) = 1 <=>
                  \/ cleanup_job = "always"
                  \/ cleanup_job # "never" /\ download_failure_exceptions = <<>>

C5_Witness ==
    /\ pc = "returned"
    /\ cleanup_job = "always"
    /\ download_failure_exceptions # <<>>
    /\ Len(clean_calls) = 1

(***************************************************************************)
(* C6: when client.clean() raises, finish_job still returns, the value it  *)
(* returns is the one the collection attempts alone determine, and the     *)
(* failure list holds the failed attempts and nothing else.                *)
(***************************************************************************)
C6_CleanFailureIsNotFatal ==
    \A c \in 1..Len(clean_calls) :
        clean_calls[c] = "clean_raised" =>
            /\ pc = "returned"
            /\ failed <=> FailedAttempts # {}
            /\ Len(download_failure_exceptions) = Cardinality(FailedAttempts)
            /\ \A e \in 1..Len(download_failure_exceptions) :
                   download_failure_exceptions[e].attempt \in FailedAttempts

C6_Witness ==
    /\ pc = "returned"
    /\ clean_calls = <<"clean_raised">>
    /\ failed
    /\ \E a \in Attempts : attempts[a].outcome = "collected"

(***************************************************************************)
(* C7: when the job did not complete normally, no collection phase is      *)
(* entered: no attempt is made, the remote report is not consulted, the    *)
(* expected-output list is not changed and the failure list is empty;      *)
(* finish_job returns false, and client.clean() is called exactly when the *)
(* policy is not "never".                                                  *)
(***************************************************************************)
C7_NoCollectionForAbnormalJob ==
    ~job_completed_normally =>
        /\ pc \in {"finish_job", "clean", "returned"}
        /\ attempts = <<>>
        /\ has_output_file_replies = <<>>
        /\ output_files = initial_output_files
        /\ download_failure_exceptions = <<>>
        /\ pc = "returned" =>
               /\ ~failed
               /\ Len(clean_calls) = (IF cleanup_job = "never" THEN 0 ELSE 1)

C7_Witness ==
    /\ ~job_completed_normally
    /\ pc = "returned"
    /\ cleanup_job = "onsuccess"
    /\ Len(clean_calls) = 1
    /\ Len(work_dir_outputs) = 2
    /\ Len(output_files) = 2
    /\ ~lwr_working_directory_contents.isNone
    /\ Len(lwr_working_directory_contents.list) = 2

(***************************************************************************)
(* C8: a path for which has_output_file replied False is never the path of *)
(* an attempt (no action is resolved and nothing is fetched for it), and   *)
(* no entry of the failure list comes from it.                             *)
(***************************************************************************)
C8_AbsentOutputNotAttempted ==
    \A r \in 1..Len(has_output_file_replies) :
        has_output_file_replies[r].output_generated = "False" =>
            /\ \A a \in Attempts : attempts[a].path # has_output_file_replies[r].output_file
            /\ \A e \in 1..Len(download_failure_exceptions) :
                   attempts[download_failure_exceptions[e].attempt].path
                       # has_output_file_replies[r].output_file

C8_Witness ==
    /\ CollectReturned
    /\ Len(has_output_file_replies) = 2
    /\ has_output_file_replies[1].output_generated = "False"
    /\ has_output_file_replies[1].items # <<>>
    /\ Len(attempts) >= 2
    /\ failed

(***************************************************************************)
(* C9: for a path for which has_output_file replied None, exactly one      *)
(* legacy attempt and no output attempt is made; for a path for which it   *)
(* replied True, exactly one output attempt and no legacy attempt.         *)
(***************************************************************************)
AttemptsOfType(output_type, path) ==
    {a \in Attempts : attempts[a].output_type = output_type /\ attempts[a].path = path}

C9_UnknownIsLegacyPresentIsOutput ==
    \A r \in 1..Len(has_output_file_replies) :
        LET reply == has_output_file_replies[r]
        IN  /\ reply.output_generated = "None" =>
                /\ Cardinality(AttemptsOfType("legacy", reply.output_file)) = 1
                /\ AttemptsOfType("output", reply.output_file) = {}
            /\ reply.output_generated = "True" =>
                /\ Cardinality(AttemptsOfType("output", reply.output_file)) = 1
                /\ AttemptsOfType("legacy", reply.output_file) = {}

C9_Witness ==
    /\ CollectReturned
    /\ Len(has_output_file_replies) = 2
    /\ has_output_file_replies[1].output_generated = "None"
    /\ has_output_file_replies[2].output_generated = "True"
    /\ \E a \in Attempts : attempts[a].output_type = "legacy" /\ attempts[a].outcome # "collected"
    /\ \E a \in Attempts : attempts[a].transfer = "fetch_output"
                           /\ attempts[a].path = has_output_file_replies[2].output_file

(***************************************************************************)
(* C10: the pattern matches a name exactly and anchored to the whole name: *)
(* a name is a candidate if and only if it is galaxy.json, or primary_ or  *)
(* metadata_ followed by anything, or dataset_<digits>.dat, or             *)
(* dataset_<digits>_files followed by anything (including nothing).        *)
(***************************************************************************)
Name_galaxy_json == Lit_galaxy \o <<".">> \o Lit_json

ClaimedCandidate(name) ==
    \/ name = Name_galaxy_json
    \/ StartsWith(name, Lit_primary)
    \/ StartsWith(name, Lit_metadata)
    \/ /\ StartsWith(name, Lit_dataset)
       /\ LeadingDigits(Drop(name, Len(Lit_dataset))) >= 1
       /\ \/ AfterDatasetDigits(name) = <<".">> \o Lit_dat
          \/ StartsWith(AfterDatasetDigits(name), Lit_files)

C10_PatternIsExactAndAnchored ==
    pc = "pattern_done" => (candidate_matched <=> ClaimedCandidate(candidate))

(***************************************************************************)
(* C11: order within one finish_job run.  The run never goes back to an    *)
(* earlier phase: explicit working-directory outputs, then declared        *)
(* outputs and their extras, then the version file, then the incidental    *)
(* working-directory files, then __clean.  A step makes at most one        *)
(* attempt, of the kind of the phase it is made in, and appends it with    *)
(* its outcome to the attempts made before; client.clean() is called at    *)
(* most once, from __clean, and no attempt is made after it.               *)
(***************************************************************************)
PhaseRank(p) ==
    IF p = "finish_job" THEN 0
    ELSE IF p = "work_dir_outputs" THEN 1
    ELSE IF p \in {"outputs", "extras"} THEN 2
    ELSE IF p = "version_file" THEN 3
    ELSE IF p = "other_files" THEN 4
    ELSE IF p = "clean" THEN 5
    ELSE 6

OutputTypesOfPhase(p) ==
    IF p \in {"work_dir_outputs", "other_files"} THEN {"output_workdir"}
    ELSE IF p = "outputs" THEN {"legacy", "output"}
    ELSE IF p \in {"extras", "version_file"} THEN {"output"}
    ELSE {}

C11_StepInOrder ==
    /\ PhaseRank(pc') >= PhaseRank(pc)
    /\ \/ attempts' = attempts
       \/ /\ Len(attempts') = Len(attempts) + 1
          /\ SubSeq(attempts', 1, Len(attempts)) = attempts
          /\ attempts'[Len(attempts')].output_type \in OutputTypesOfPhase(pc)
          /\ attempts'[Len(attempts')].outcome \in Outcomes
          /\ pc = "version_file" => attempts'[Len(attempts')].name = COMMAND_VERSION_FILENAME
    /\ \/ clean_calls' = clean_calls
       \/ /\ pc = "clean"
          /\ clean_calls = <<>>
          /\ Len(clean_calls') = 1
          /\ attempts' = attempts
    /\ clean_calls # <<>> => attempts' = attempts

C11_PhasesInOrder == [][C11_StepInOrder]_vars

C11_Witness ==
    /\ pc = "returned"
    /\ clean_calls # <<>>
    /\ Len(attempts) = 5
    /\ attempts[1].output_type = "output_workdir"
    /\ attempts[1].outcome = "transfer_raised"
    /\ attempts[2].output_type = "legacy"
    /\ attempts[3].path = attempts[2].path \o <<".", "x">>
    /\ attempts[4].name = COMMAND_VERSION_FILENAME
    /\ attempts[5].output_type = "output_workdir"

(***************************************************************************)
(* C12: collect() makes the attempts the four phases prescribe and no      *)
(* others.  In particular, with expected outputs [A, B], no explicit       *)
(* working-directory outputs, has_output_file(A) True and (B) False, no    *)
(* extras, no version file and one listed name that matches the pattern,   *)
(* exactly two attempts are made, an output attempt for A and then an      *)
(* output_workdir attempt for the name, and the failure list is empty if   *)
(* both succeed.                                                           *)
(***************************************************************************)
AttemptIsPrescribed(a) ==
    LET t == attempts[a]
    IN  \/ /\ t.output_type = "output_workdir"
           /\ \E k \in 1..Len(work_dir_outputs) :
                  t.path = work_dir_outputs[k][2] /\ t.name = LwrNameOf(k)
        \/ /\ t.name = <<>>
           /\ \E r \in 1..Len(has_output_file_replies) :
                  /\ has_output_file_replies[r].output_file = t.path
                  /\ \/ has_output_file_replies[r].output_generated = "None"
                        /\ t.output_type = "legacy"
                     \/ has_output_file_replies[r].output_generated = "True"
                        /\ t.output_type = "output"
        \/ /\ t.output_type = "output"
           /\ \E r \in 1..Len(has_output_file_replies) :
                  \E e \in 1..Len(has_output_file_replies[r].items) :
                      /\ t.path = has_output_file_replies[r].items[e][1]
                      /\ t.name = has_output_file_replies[r].items[e][2]
        \/ /\ t.output_type = "output"
           /\ VersionFileIsCandidate
           /\ t.path = version_file
           /\ t.name = COMMAND_VERSION_FILENAME
        \/ /\ t.output_type = "output_workdir"
           /\ \E k \in 1..Len(lwr_working_directory_contents.list) :
                  /\ t.name = lwr_working_directory_contents.list[k]
                  /\ PatternMatch(t.name)
                  /\ t.path = join(WorkingDirectory, local_name(t.name))

C12_Scenario ==
    /\ CollectReturned
    /\ initial_output_files = <<PathA, PathB>>
    /\ work_dir_outputs = <<>>
    /\ Len(has_output_file_replies) = 2
    /\ has_output_file_replies[1] =
           [output_file |-> PathA, output_generated |-> "True", items |-> <<>>]
    /\ has_output_file_replies[2] =
           [output_file |-> PathB, output_generated |-> "False", items |-> <<>>]
    /\ version_file = <<>>
    /\ ~lwr_working_directory_contents.isNone
    /\ Len(lwr_working_directory_contents.list) = 1
    /\ PatternMatch(lwr_working_directory_contents.list[1])

C12_OnlyPrescribedAttempts ==
    /\ \A a \in Attempts : AttemptIsPrescribed(a)
    /\ C12_Scenario =>
           /\ Len(attempts) = 2
           /\ attempts[1].output_type = "output"
           /\ attempts[1].transfer \in {"fetch_output", "none"}
           /\ attempts[1].path = PathA
           /\ attempts[2].output_type = "output_workdir"
           /\ attempts[2].transfer \in {"fetch_work_dir_output", "none"}
           /\ attempts[2].name = lwr_working_directory_contents.list[1]
           /\ FailedAttempts = {} => download_failure_exceptions = <<>>

C12_Witness ==
    /\ C12_Scenario
    /\ Len(attempts) = 2
    /\ FailedAttempts = {}
    /\ download_failure_exceptions = <<>>
    /\ pc = "returned"
    /\ ~failed

(***************************************************************************)
(* C13: phase 1 removes the destination of each explicit working-directory *)
(* output from the expected-output list exactly once, whether its attempt  *)
(* succeeded or failed, and removes nothing else; so from phase 2 on the   *)
(* list holds none of these destinations, has_output_file is not asked     *)
(* about them and no legacy or output attempt is made for them.            *)
(***************************************************************************)
ExpectedWithoutFirst(n) ==
    LET Kept(p) == \A k \in 1..n : work_dir_outputs[k][2] # p
    IN  SelectSeq(initial_output_files, Kept)

PastPhaseOne ==
    /\ job_completed_normally
    /\ pc \in {"outputs", "extras", "version_file", "other_files", "clean", "returned"}

C13_DestinationsRemovedBeforePhaseTwo ==
    /\ pc \in {"work_dir_outputs", "raised"} => output_files = ExpectedWithoutFirst(i - 1)
    /\ PastPhaseOne =>
           /\ output_files = ExpectedWithoutFirst(Len(work_dir_outputs))
           /\ Len(output_files) = Len(initial_output_files) - Len(work_dir_outputs)
           /\ \A k \in 1..Len(work_dir_outputs) :
                  /\ ~ListHas(output_files, work_dir_outputs[k][2])
                  /\ \A r \in 1..Len(has_output_file_replies) :
                         has_output_file_replies[r].output_file # work_dir_outputs[k][2]
                  /\ AttemptsOfType("legacy", work_dir_outputs[k][2]) = {}
                  /\ AttemptsOfType("output", work_dir_outputs[k][2]) = {}

C13_Witness ==
    /\ PastPhaseOne
    /\ pc = "version_file"
    /\ Len(work_dir_outputs) = 1
    /\ Len(initial_output_files) = 2
    /\ attempts[1].outcome = "action_raised"
    /\ output_files = <<PathA>>
    /\ Len(attempts) >= 2

(***************************************************************************)
(* C14: phase 4 never attempts a name that is already in the downloaded    *)
(* record, whether a successful phase-1 attempt or an earlier successful   *)
(* phase-4 attempt recorded it, and never attempts a name that does not    *)
(* match the pattern.  The phase-4 attempts are the output_workdir         *)
(* attempts made after those of the explicit working-directory outputs.    *)
(***************************************************************************)
PhaseFourAttempts ==
    {a \in Attempts : /\ attempts[a].output_type = "output_workdir"
                      /\ a > Len(work_dir_outputs)}

C14_PhaseFourSkipsDownloadedAndUnmatched ==
    \A a \in PhaseFourAttempts :
        /\ PatternMatch(attempts[a].name)
        /\ ListHas(working_directory_contents, attempts[a].name)
        /\ \A b \in 1..(a - 1) :
               ~ /\ attempts[b].output_type = "output_workdir"
                 /\ attempts[b].name = attempts[a].name
                 /\ attempts[b].outcome = "collected"

C14_Witness ==
    /\ CollectReturned
    /\ Len(working_directory_contents) = 2
    /\ working_directory_contents[1] = working_directory_contents[2]
    /\ PatternMatch(working_directory_contents[1])
    /\ Cardinality(PhaseFourAttempts) = 1
    /\ \A a \in PhaseFourAttempts : attempts[a].outcome = "collected"
    /\ downloaded_working_directory_files = <<working_directory_contents[1]>>
    /\ Len(work_dir_outputs) = 1

(***************************************************************************)
(* C15: every attempt has one of two outcomes.  If the action is resolved, *)
(* exactly one transfer call is made, of the kind of the attempt's         *)
(* category (legacy: fetch_output_legacy, output_workdir:                  *)
(* fetch_work_dir_output, output: fetch_output); if resolving the action   *)
(* raises, no transfer call is made.  A raising resolution and a raising   *)
(* transfer each append exactly one failure; a collected attempt none.     *)
(***************************************************************************)
FailuresOfAttempt(a) ==
    {e \in 1..Len(download_failure_exceptions) : download_failure_exceptions[e].attempt = a}

TransferOfCategory(output_type) ==
    CASE output_type = "legacy" -> "fetch_output_legacy"
      [] output_type = "output_workdir" -> "fetch_work_dir_output"
      [] output_type = "output" -> "fetch_output"

C15_OneTransferOrOneFailure ==
    \A a \in Attempts :
        /\ attempts[a].output_type \in {"legacy", "output_workdir", "output"}
        /\ attempts[a].outcome = "action_raised" =>
               /\ attempts[a].transfer = "none"
               /\ Cardinality(FailuresOfAttempt(a)) = 1
        /\ attempts[a].outcome = "transfer_raised" =>
               /\ attempts[a].transfer = TransferOfCategory(attempts[a].output_type)
               /\ Cardinality(FailuresOfAttempt(a)) = 1
        /\ attempts[a].outcome = "collected" =>
               /\ attempts[a].transfer = TransferOfCategory(attempts[a].output_type)
               /\ FailuresOfAttempt(a) = {}

C15_Witness ==
    /\ CollectReturned
    /\ \E a \in Attempts : attempts[a].output_type = "legacy"
                           /\ attempts[a].outcome = "action_raised"
    /\ \E a \in Attempts : attempts[a].output_type = "output_workdir"
                           /\ attempts[a].outcome = "transfer_raised"
    /\ \E a \in Attempts : attempts[a].output_type = "output"
                           /\ attempts[a].outcome = "collected"
    /\ \E a \in Attempts : attempts[a].output_type = "legacy"
                           /\ attempts[a].outcome = "collected"
    /\ Len(download_failure_exceptions) = 2

(***************************************************************************)
(* C16: the category given to the action mapper is output_workdir exactly  *)
(* when the attempt's category is output_workdir; legacy and output        *)
(* attempts resolve their action as output, so the action mapper is never  *)
(* called with legacy.                                                     *)
(***************************************************************************)
C16_LegacyResolvesAsOutput ==
    \A a \in Attempts :
        /\ attempts[a].action_category \in {"output", "output_workdir"}
        /\ attempts[a].action_category = "output_workdir"
               <=> attempts[a].output_type = "output_workdir"

C16_Witness ==
    /\ \E a \in Attempts : attempts[a].output_type = "legacy"
                           /\ attempts[a].action_category = "output"
    /\ \E a \in Attempts : attempts[a].output_type = "output"
                           /\ attempts[a].action_category = "output"
    /\ \E a \in Attempts : attempts[a].output_type = "output_workdir"
                           /\ attempts[a].action_category = "output_workdir"

(***************************************************************************)
(* C17: phase 3 makes exactly one attempt for the version file, of type    *)
(* output and named COMMAND_VERSION_FILENAME, exactly when a version file  *)
(* is declared and the remote's output-directory listing contains that     *)
(* name.  With no version file declared, or a listing that is None or      *)
(* lacks the name, there is no such attempt and no failure for it; before  *)
(* phase 3 has run there is none either.                                   *)
(***************************************************************************)
VersionFileAttempts ==
    {a \in Attempts : attempts[a].name = COMMAND_VERSION_FILENAME}

PhaseThreeDone == job_completed_normally /\ pc \in {"other_files", "clean", "returned"}

C17_VersionFileAttemptedIffDeclaredAndListed ==
    /\ \A a \in VersionFileAttempts : /\ attempts[a].output_type = "output"
                                      /\ attempts[a].path = version_file
    /\ PhaseThreeDone =>
           Cardinality(VersionFileAttempts) = (IF VersionFileIsCandidate THEN 1 ELSE 0)
    /\ ~PhaseThreeDone => VersionFileAttempts = {}
    /\ ~VersionFileIsCandidate =>
           \A e \in 1..Len(download_failure_exceptions) :
               download_failure_exceptions[e].attempt \notin VersionFileAttempts

C17_Witness ==
    /\ PhaseThreeDone
    /\ VersionFileIsCandidate
    /\ \E a \in VersionFileAttempts : attempts[a].outcome = "transfer_raised"
    /\ Len(attempts) >= 3

(***************************************************************************)
(* C18: for every expected output p iterated in phase 2 and every pair     *)
(* (galaxy_path, lwr_name) of output_extras(p), once the inner loop has    *)
(* passed the pair there is exactly one attempt of type output for it,     *)
(* made after the attempt for p itself if there was one, whatever          *)
(* has_output_file(p) replied and whether or not the attempt for p failed. *)
(***************************************************************************)
ExtraAttempts(item) ==
    {a \in Attempts : /\ attempts[a].output_type = "output"
                      /\ attempts[a].path = item[1]
                      /\ attempts[a].name = item[2]}

OwnAttempts(output_file) ==
    {a \in Attempts : /\ attempts[a].output_type \in {"legacy", "output"}
                      /\ attempts[a].path = output_file
                      /\ attempts[a].name = <<>>}

ExtraIterated(r, e) ==
    \/ r < Len(has_output_file_replies)
    \/ pc # "extras"
    \/ e < j

C18_EveryExtraAttemptedOnce ==
    \A r \in 1..Len(has_output_file_replies) :
        LET reply == has_output_file_replies[r]
        IN  \A e \in 1..Len(reply.items) :
                IF ExtraIterated(r, e)
                THEN /\ Cardinality(ExtraAttempts(reply.items[e])) = 1
                     /\ \A x \in ExtraAttempts(reply.items[e]) :
                            \A own \in OwnAttempts(reply.output_file) : own < x
                ELSE ExtraAttempts(reply.items[e]) = {}

C18_Witness ==
    /\ CollectReturned
    /\ \E r \in 1..Len(has_output_file_replies) :
           /\ has_output_file_replies[r].output_generated = "False"
           /\ Len(has_output_file_replies[r].items) = 1
           /\ Cardinality(ExtraAttempts(has_output_file_replies[r].items[1])) = 1
           /\ OwnAttempts(has_output_file_replies[r].output_file) = {}
    /\ Len(has_output_file_replies) = 2

(***************************************************************************)
(* C19: the list of download failures has exactly one entry for each       *)
(* failed attempt and none for a collected one, in the order in which the  *)
(* attempts failed; at every point its length is the number of attempts    *)
(* that have failed so far, and a step only ever extends it.               *)
(***************************************************************************)
IsPrefix(s, t) ==
    /\ Len(s) <= Len(t)
    /\ \A k \in 1..Len(s) : s[k] = t[k]

C19_FailureListTracksFailedAttempts ==
    /\ Len(download_failure_exceptions) = Cardinality(FailedAttempts)
    /\ \A a \in FailedAttempts : Cardinality(FailuresOfAttempt(a)) = 1
    /\ \A e \in 1..Len(download_failure_exceptions) :
           download_failure_exceptions[e].attempt \in FailedAttempts
    /\ \A e, f \in 1..Len(download_failure_exceptions) :
           e < f => download_failure_exceptions[e].attempt
                        < download_failure_exceptions[f].attempt

C19_FailureListOnlyGrows ==
    IsPrefix(download_failure_exceptions, download_failure_exceptions')

C19_OneEntryPerFailedAttemptInOrder ==
    /\ []C19_FailureListTracksFailedAttempts
    /\ [][C19_FailureListOnlyGrows]_vars

C19_Witness ==
    /\ CollectReturned
    /\ Len(download_failure_exceptions) = 2
    /\ Len(attempts) = 4
    /\ attempts[1].outcome = "collected"
    /\ attempts[2].outcome = "action_raised"
    /\ attempts[3].outcome = "collected"
    /\ attempts[4].outcome = "transfer_raised"

(***************************************************************************)
(* C20: at every point of collect(), the record of downloaded working-     *)
(* directory files is the list of the names of the output_workdir attempts *)
(* that collected, in the order of the attempts: a failed output_workdir   *)
(* attempt adds nothing, legacy and output attempts add nothing, and a     *)
(* step never removes an entry.                                            *)
(***************************************************************************)
RECURSIVE CollectedWorkdirNames(_)
CollectedWorkdirNames(n) ==
    IF n = 0 THEN <<>>
    ELSE IF attempts[n].output_type = "output_workdir" /\ attempts[n].outcome = "collected"
         THEN Append(CollectedWorkdirNames(n - 1), attempts[n].name)
         ELSE CollectedWorkdirNames(n - 1)

C20_RecordIsCollectedWorkdirNames ==
    downloaded_working_directory_files = CollectedWorkdirNames(Len(attempts))

C20_RecordOnlyGrows ==
    IsPrefix(downloaded_working_directory_files, downloaded_working_directory_files')

C20_DownloadedRecordHoldsOnlyCollectedNames ==
    /\ []C20_RecordIsCollectedWorkdirNames
    /\ [][C20_RecordOnlyGrows]_vars

C20_Witness ==
    /\ CollectReturned
    /\ Len(downloaded_working_directory_files) = 1
    /\ \E a \in Attempts : /\ attempts[a].output_type = "output_workdir"
                           /\ attempts[a].outcome # "collected"
    /\ \E a \in Attempts : /\ attempts[a].output_type = "legacy"
                           /\ attempts[a].outcome = "collected"
    /\ \E a \in Attempts : /\ attempts[a].output_type = "output"
                           /\ attempts[a].outcome = "collected"
    /\ \E a \in PhaseFourAttempts : attempts[a].outcome = "collected"

====
